---- MODULE Spec2Model ----
(***************************************************************************)
(* Model of src/pharmacy.js: the drug table (DRUGS_NAMES, DRUGS_BEHAVIOR,   *)
(* DEFAULT_DRUGS_BEHAVIOR, multiple_value) and Pharmacy.updateBenefitValue *)
(* with every helper it calls.                                             *)
(*                                                                         *)
(* JavaScript numbers are modelled as tagged records so that the values    *)
(* the code can really produce (an integer, NaN) and the result of reading *)
(* a property that does not exist (undefined) are all representable.       *)
(* expiresIn is only ever compared with integer literals and decremented   *)
(* by 1, so it is kept as a plain integer.                                 *)
(***************************************************************************)
EXTENDS Integers, Sequences, FiniteSets, TLC

VARIABLES drugs,   \* this.drugs: the batch held by the Pharmacy
          prev,    \* history: this.drugs as it was when the last call began
          init,    \* history: the batch handed to the constructor
          calls    \* history: number of completed updateBenefitValue calls

vars == <<drugs, prev, init, calls>>

(* ------------------------------ bounds --------------------------------- *)
MaxCalls      == 3    \* calls explored from each initial batch
PastExpiry    == 2    \* initial expiresIn ranges over -PastExpiry..MaxExpiry
MaxExpiry     == 12
MaxBatch      == 2    \* longest batch in SpecBatch
Slack         == 10   \* SpecAny: initial benefit in -Slack..maxBenefit+Slack
MaxLongCalls  == 52   \* calls explored in SpecLong
LongExpiry    == 60   \* a shelf life longer than any decay to 0

(* -------------------------- JavaScript values -------------------------- *)
Num(k)    == [t |-> "number", n |-> k]
NaN       == [t |-> "NaN", n |-> 0]
Undefined == [t |-> "undefined", n |-> 0]

IsInt(v) == v.t = "number"

\* ToNumber(undefined) is NaN; numbers convert to themselves.
ToNumber(v) == IF v.t = "undefined" THEN NaN ELSE v

JsAdd(a, b) ==
    LET x == ToNumber(a)  y == ToNumber(b)
    IN  IF IsInt(x) /\ IsInt(y) THEN Num(x.n + y.n) ELSE NaN

JsSub(a, b) ==
    LET x == ToNumber(a)  y == ToNumber(b)
    IN  IF IsInt(x) /\ IsInt(y) THEN Num(x.n - y.n) ELSE NaN

JsMul(a, b) ==
    LET x == ToNumber(a)  y == ToNumber(b)
    IN  IF IsInt(x) /\ IsInt(y) THEN Num(x.n * y.n) ELSE NaN

\* Every relational comparison with NaN is false.
JsGT(a, b) ==
    LET x == ToNumber(a)  y == ToNumber(b)
    IN  IsInt(x) /\ IsInt(y) /\ x.n > y.n

JsLT(a, b) ==
    LET x == ToNumber(a)  y == ToNumber(b)
    IN  IsInt(x) /\ IsInt(y) /\ x.n < y.n

\* obj.f : the property when the object has it, undefined otherwise.
Get(obj, f) == IF f \in DOMAIN obj THEN obj[f] ELSE Undefined

(* ------------------------------ drug table ----------------------------- *)
DRUGS_NAMES ==
    [DOLIPRANE  |-> "Doliprane",
     HERBAL_TEA |-> "Herbal Tea",
     FERVEX     |-> "Fervex",
     MAGIC_PILL |-> "Magic Pill",
     DAFALGAN   |-> "Dafalgan"]

DEFAULT_DRUGS_BEHAVIOR == [decreaseBenefit |-> Num(1), increaseBenefit |-> Num(0)]

multiple_value == 2

\* An array literal of one element: its own properties are the index and
\* length.
ArrayLiteral == [length |-> Num(1)]

\* The own properties of the DRUGS_BEHAVIOR object literal.
\* In the Herbal Tea entry, [DRUGS_NAMES.HERBAL_TEA] in expression position
\* is an array literal; it has no property increaseBenefitBeforeExpiration,
\* so the product is undefined * 2.
DRUGS_BEHAVIOR ==
    [n \in {DRUGS_NAMES.HERBAL_TEA, DRUGS_NAMES.FERVEX,
            DRUGS_NAMES.MAGIC_PILL, DRUGS_NAMES.DAFALGAN} |->
       CASE n = DRUGS_NAMES.HERBAL_TEA ->
              [increaseBenefitBeforeExpiration |-> Num(1),
               increaseBenefitAfterExpiration  |->
                   JsMul(Get(ArrayLiteral, "increaseBenefitBeforeExpiration"),
                         Num(multiple_value))]
         [] n = DRUGS_NAMES.FERVEX ->
              [increaseBenefits |->
                  [default        |-> Num(1),
                   lessThan10Days |-> Num(2),
                   lessThan5Days  |-> Num(3),
                   afterExpiry    |-> Num(0)]]
         [] n = DRUGS_NAMES.MAGIC_PILL ->
              [decreaseBenefit |-> Num(0), increaseBenefit |-> Num(0)]
         [] n = DRUGS_NAMES.DAFALGAN ->
              [decreaseBenefit |->
                   JsMul(DEFAULT_DRUGS_BEHAVIOR.decreaseBenefit,
                         Num(multiple_value))]]

\* DRUGS_BEHAVIOR is created by an object literal, so a property read with a
\* key it does not own is answered by Object.prototype.  These keys yield a
\* function (a truthy value) that has none of the behaviour fields.
ObjectPrototypeKeys ==
    {"constructor", "toString", "toLocaleString", "valueOf",
     "hasOwnProperty", "isPrototypeOf", "propertyIsEnumerable"}

PrototypeMember == [length |-> Num(0)]

\* const behavior = DRUGS_BEHAVIOR[drug.name] || DEFAULT_DRUGS_BEHAVIOR;
BehaviorOf(name) ==
    IF name \in DOMAIN DRUGS_BEHAVIOR THEN DRUGS_BEHAVIOR[name]
    ELSE IF name \in ObjectPrototypeKeys THEN PrototypeMember
    ELSE DEFAULT_DRUGS_BEHAVIOR

Drug(name, expiresIn, benefit) ==
    [name |-> name, expiresIn |-> expiresIn, benefit |-> benefit]

(* ------------------------------- Pharmacy ------------------------------ *)
maxBenefit == 50
minBenefit == 0

increaseBenefit(drug, Benefit) ==
    IF JsGT(JsAdd(drug.benefit, Benefit), Num(maxBenefit))
    THEN [drug EXCEPT !.benefit = Num(maxBenefit)]
    ELSE [drug EXCEPT !.benefit = JsAdd(drug.benefit, Benefit)]

\* Variant: the lower bound is not enforced.
decreaseBenefit_noFloor(drug, Benefit) ==
    [drug EXCEPT !.benefit = JsSub(drug.benefit, Benefit)]

decreaseBenefit(drug, Benefit) ==
    IF JsLT(JsSub(drug.benefit, Benefit), Num(minBenefit))
    THEN [drug EXCEPT !.benefit = Num(minBenefit)]
    ELSE [drug EXCEPT !.benefit = JsSub(drug.benefit, Benefit)]

\* Variant: the Magic Pill is counted down like any other drug.
decreaseExpiresIn_always(drug) ==
    [drug EXCEPT !.expiresIn = drug.expiresIn - 1]

\* Variant: the countdown stops once the drug has expired.
decreaseExpiresIn_stopsAtZero(drug) ==
    IF drug.name # DRUGS_NAMES.MAGIC_PILL /\ drug.expiresIn > 0
    THEN [drug EXCEPT !.expiresIn = drug.expiresIn - 1]
    ELSE drug

decreaseExpiresIn(drug) ==
    IF drug.name # DRUGS_NAMES.MAGIC_PILL
    THEN [drug EXCEPT !.expiresIn = drug.expiresIn - 1]
    ELSE drug

updateHerbalTea(drug, behavior) ==
    IF drug.expiresIn < 0
    THEN increaseBenefit(drug, Get(behavior, "increaseBenefitAfterExpiration"))
    ELSE increaseBenefit(drug, Get(behavior, "increaseBenefitBeforeExpiration"))

\* Variant: the 10-day threshold is exclusive.
updateFervex_strictTen(drug, behavior) ==
    IF drug.expiresIn <= 0
    THEN [drug EXCEPT !.benefit = behavior.increaseBenefits.afterExpiry]
    ELSE IF drug.expiresIn <= 5 /\ drug.expiresIn > 0
    THEN increaseBenefit(drug, behavior.increaseBenefits.lessThan5Days)
    ELSE IF drug.expiresIn < 10 /\ drug.expiresIn > 5
    THEN increaseBenefit(drug, behavior.increaseBenefits.lessThan10Days)
    ELSE increaseBenefit(drug, behavior.increaseBenefits.default)

updateFervex(drug, behavior) ==
    IF drug.expiresIn <= 0
    THEN [drug EXCEPT !.benefit = behavior.increaseBenefits.afterExpiry]
    ELSE IF drug.expiresIn <= 5 /\ drug.expiresIn > 0
    THEN increaseBenefit(drug, behavior.increaseBenefits.lessThan5Days)
    ELSE IF drug.expiresIn <= 10 /\ drug.expiresIn > 5
    THEN increaseBenefit(drug, behavior.increaseBenefits.lessThan10Days)
    ELSE increaseBenefit(drug, behavior.increaseBenefits.default)

\* Variant: the benefit is raised instead of lowered.
updateDafalgan_increases(drug, behavior) ==
    increaseBenefit(drug, Get(behavior, "decreaseBenefit"))

updateDafalgan(drug, behavior) ==
    IF drug.expiresIn < 0
    THEN decreaseBenefit(drug, JsMul(Get(behavior, "decreaseBenefit"),
                                     Num(multiple_value)))
    ELSE decreaseBenefit(drug, Get(behavior, "decreaseBenefit"))

updateNormalDrug(drug, behavior) ==
    decreaseBenefit(drug, Get(behavior, "decreaseBenefit"))

handleNotExpired(drug, behavior) ==
    CASE drug.name = DRUGS_NAMES.HERBAL_TEA -> updateHerbalTea(drug, behavior)
      [] drug.name = DRUGS_NAMES.FERVEX     -> updateFervex(drug, behavior)
      [] drug.name = DRUGS_NAMES.MAGIC_PILL -> drug
      [] drug.name = DRUGS_NAMES.DAFALGAN   -> updateDafalgan(drug, behavior)
      [] OTHER                              -> updateNormalDrug(drug, behavior)

\* Variant: an expired Dafalgan keeps its pre-expiry rate.
handleExpired_dafalganSingle(drug, behavior) ==
    CASE drug.name = DRUGS_NAMES.HERBAL_TEA ->
             increaseBenefit(drug, Get(behavior, "increaseBenefit"))
      [] drug.name = DRUGS_NAMES.FERVEX ->
             [drug EXCEPT !.benefit = behavior.increaseBenefits.afterExpiry]
      [] drug.name = DRUGS_NAMES.DAFALGAN ->
             decreaseBenefit(drug, Get(behavior, "decreaseBenefit"))
      [] OTHER ->
             decreaseBenefit(drug, JsMul(Get(behavior, "decreaseBenefit"),
                                         Num(multiple_value)))

handleExpired(drug, behavior) ==
    CASE drug.name = DRUGS_NAMES.HERBAL_TEA ->
             increaseBenefit(drug, Get(behavior, "increaseBenefit"))
      [] drug.name = DRUGS_NAMES.FERVEX ->
             [drug EXCEPT !.benefit = behavior.increaseBenefits.afterExpiry]
      [] drug.name = DRUGS_NAMES.DAFALGAN ->
             decreaseBenefit(drug, JsMul(Get(behavior, "decreaseBenefit"),
                                         Num(multiple_value)))
      [] OTHER ->
             decreaseBenefit(drug, JsMul(Get(behavior, "decreaseBenefit"),
                                         Num(multiple_value)))

\* The arrow function handed to forEach.
updateDrug(drug) ==
    LET behavior == BehaviorOf(drug.name)
        handled  == IF drug.expiresIn > 0
                    THEN handleNotExpired(drug, behavior)
                    ELSE handleExpired(drug, behavior)
    IN  decreaseExpiresIn(handled)

\* this.drugs.forEach(...): positions 1..Len visited in order, each element
\* mutated in place.  The positions of a batch hold distinct Drug objects.
\* Variant: the last position of the batch is not visited.
RECURSIVE forEach_skipsLast(_, _)
forEach_skipsLast(ds, i) ==
    IF i >= Len(ds) THEN ds
    ELSE forEach_skipsLast([ds EXCEPT ![i] = updateDrug(ds[i])], i + 1)

RECURSIVE forEach(_, _)
forEach(ds, i) ==
    IF i > Len(ds) THEN ds
    ELSE forEach([ds EXCEPT ![i] = updateDrug(ds[i])], i + 1)

updateBenefitValue(ds) == forEach(ds, 1)

(* ------------------------------ state machine -------------------------- *)
\* Names a caller may give: the five of DRUGS_NAMES, a name outside the
\* table, and a name that Object.prototype answers.
Names ==
    {DRUGS_NAMES.DOLIPRANE, DRUGS_NAMES.HERBAL_TEA, DRUGS_NAMES.FERVEX,
     DRUGS_NAMES.MAGIC_PILL, DRUGS_NAMES.DAFALGAN, "test", "toString"}

InitWith(batches) ==
    /\ drugs \in batches
    /\ prev = drugs
    /\ init = drugs
    /\ calls = 0

Call(limit) ==
    /\ calls < limit
    /\ drugs' = updateBenefitValue(drugs)
    /\ prev'  = drugs
    /\ calls' = calls + 1
    /\ UNCHANGED init

\* One drug, every in-range benefit, expiry on both sides of 0 and of the
\* Fervex thresholds.
Init ==
    InitWith({ <<Drug(nm, e, Num(b))>> :
                 nm \in Names, e \in (-PastExpiry)..MaxExpiry,
                 b \in minBenefit..maxBenefit })

UpdateBenefitValue == Call(MaxCalls)

Next == UpdateBenefitValue

\* Batches of one to MaxBatch drugs drawn from a pool that has every rule on
\* both sides of the expiry.
BatchPool ==
    { Drug(nm, e, Num(b)) :
        nm \in {DRUGS_NAMES.HERBAL_TEA, DRUGS_NAMES.FERVEX,
                DRUGS_NAMES.MAGIC_PILL, DRUGS_NAMES.DAFALGAN, "test"},
        e \in {0, 1, 6}, b \in {1, 49} }

InitBatch ==
    InitWith(UNION { [1..k -> BatchPool] : k \in 1..MaxBatch })

\* One drug whose benefit is any integer around the documented range.
InitAny ==
    InitWith({ <<Drug(nm, e, Num(b))>> :
                 nm \in Names, e \in (-PastExpiry)..MaxExpiry,
                 b \in (minBenefit - Slack)..(maxBenefit + Slack) })

\* One decaying or Fervex drug followed over enough calls to reach 0 from
\* the largest benefit at the slowest rate.
InitLong ==
    InitWith({ <<Drug(nm, e, Num(b))>> :
                 nm \in {DRUGS_NAMES.DOLIPRANE, "test", DRUGS_NAMES.DAFALGAN,
                         DRUGS_NAMES.FERVEX},
                 e \in ((-1)..2) \cup {LongExpiry},
                 b \in minBenefit..maxBenefit })

UpdateBenefitValueLong == Call(MaxLongCalls)

NextLong == UpdateBenefitValueLong

SpecBatch == InitBatch /\ [][Next]_vars
SpecAny   == InitAny /\ [][Next]_vars
SpecLong  == InitLong /\ [][NextLong]_vars

Spec == Init /\ [][Next]_vars

(* --------------------------- shared vocabulary ------------------------- *)
Positions == 1..Len(drugs)

Min(a, b) == IF a < b THEN a ELSE b
Max(a, b) == IF a > b THEN a ELSE b

\* v is an integer within the documented bounds of a benefit.
InRange(v) == IsInt(v) /\ minBenefit <= v.n /\ v.n <= maxBenefit

Listed ==
    {DRUGS_NAMES.HERBAL_TEA, DRUGS_NAMES.FERVEX,
     DRUGS_NAMES.MAGIC_PILL, DRUGS_NAMES.DAFALGAN}

(* ------------------------------------ C1 ------------------------------- *)
\* C1: whatever the name and the expiry, a benefit that is an integer in
\* [0, 50] when a call begins is an integer in [0, 50] when the call returns.
C1_ValueStaysInRange ==
    \A i \in Positions :
        InRange(prev[i].benefit) => InRange(drugs[i].benefit)

(* ------------------------------------ C2 ------------------------------- *)
\* C2: one call on a Herbal Tea with integer benefit v writes min(50, v + 1)
\* when the expiry entering the call is > 0 and min(50, v + 2) when it is
\* <= 0, and decrements the expiry by 1.
C2_HerbalTea ==
    calls > 0 =>
      \A i \in Positions :
        (prev[i].name = DRUGS_NAMES.HERBAL_TEA /\ IsInt(prev[i].benefit)) =>
            /\ drugs[i].benefit =
                 Num(Min(maxBenefit,
                         prev[i].benefit.n
                           + (IF prev[i].expiresIn > 0 THEN 1 ELSE 2)))
            /\ drugs[i].expiresIn = prev[i].expiresIn - 1

(* ------------------------------------ C3 ------------------------------- *)
\* The four cases of the Fervex rule, as conditions on the entering expiry.
FervexCases(e) ==
    << e > 10, 5 < e /\ e <= 10, 0 < e /\ e <= 5, e <= 0 >>

\* C3: one call on a Fervex with integer benefit v picks the adjustment from
\* the expiry e entering the call: min(50, v+1) if e > 10, min(50, v+2) if
\* 5 < e <= 10, min(50, v+3) if 0 < e <= 5, exactly 0 if e <= 0; exactly one
\* of the four cases applies to e; the expiry is then decremented by 1.
C3_Fervex ==
    calls > 0 =>
      \A i \in Positions :
        (prev[i].name = DRUGS_NAMES.FERVEX /\ IsInt(prev[i].benefit)) =>
          LET e == prev[i].expiresIn
              v == prev[i].benefit.n
              c == FervexCases(e)
          IN  /\ Cardinality({k \in 1..4 : c[k]}) = 1
              /\ c[1] => drugs[i].benefit = Num(Min(maxBenefit, v + 1))
              /\ c[2] => drugs[i].benefit = Num(Min(maxBenefit, v + 2))
              /\ c[3] => drugs[i].benefit = Num(Min(maxBenefit, v + 3))
              /\ c[4] => drugs[i].benefit = Num(0)
              /\ drugs[i].expiresIn = e - 1

\* A Fervex entered a call exactly on the 10-day threshold and gained 2.
C3_Witness ==
    /\ calls > 0
    /\ \E i \in Positions :
         /\ prev[i].name = DRUGS_NAMES.FERVEX
         /\ prev[i].expiresIn = 10
         /\ prev[i].benefit = Num(20)
         /\ drugs[i] = Drug(DRUGS_NAMES.FERVEX, 9, Num(22))

(* ------------------------------------ C4 ------------------------------- *)
\* C4: one call on a Dafalgan with integer benefit v writes max(0, v - 2)
\* when the expiry entering the call is > 0 and max(0, v - 4) when it is
\* <= 0; the expired test precedes the decrement, and the expiry is then
\* decremented by 1.
C4_Dafalgan ==
    calls > 0 =>
      \A i \in Positions :
        (prev[i].name = DRUGS_NAMES.DAFALGAN /\ IsInt(prev[i].benefit)) =>
            /\ drugs[i].benefit =
                 Num(Max(minBenefit,
                         prev[i].benefit.n
                           - (IF prev[i].expiresIn > 0 THEN 2 ELSE 4)))
            /\ drugs[i].expiresIn = prev[i].expiresIn - 1

\* A Dafalgan entered a call with expiry 0 and lost 4; another state of the
\* same kind entered with expiry 1 and lost 2.
C4_Witness ==
    /\ calls > 0
    /\ \E i \in Positions :
         /\ prev[i] = Drug(DRUGS_NAMES.DAFALGAN, 0, Num(10))
         /\ drugs[i] = Drug(DRUGS_NAMES.DAFALGAN, -1, Num(6))

(* ------------------------------------ C5 ------------------------------- *)
\* C5: one call on an item whose name is none of Herbal Tea, Fervex, Magic
\* Pill, Dafalgan, entered with integer benefit v, writes max(0, v - 1) when
\* the expiry entering the call is > 0 and max(0, v - 2) when it is <= 0, and
\* decrements the expiry by 1.
C5_DefaultRule ==
    calls > 0 =>
      \A i \in Positions :
        (prev[i].name \notin Listed /\ IsInt(prev[i].benefit)) =>
            /\ drugs[i].benefit =
                 Num(Max(minBenefit,
                         prev[i].benefit.n
                           - (IF prev[i].expiresIn > 0 THEN 1 ELSE 2)))
            /\ drugs[i].expiresIn = prev[i].expiresIn - 1

(* ------------------------------------ C6 ------------------------------- *)
\* C6: a Magic Pill that started with a benefit in [0, 50] has, after any
\* number of calls, the expiry and the benefit it started with.
C6_MagicPillFrozen ==
    \A i \in Positions :
        (init[i].name = DRUGS_NAMES.MAGIC_PILL /\ InRange(init[i].benefit)) =>
            /\ drugs[i].expiresIn = init[i].expiresIn
            /\ drugs[i].benefit = init[i].benefit
            /\ drugs[i].name = init[i].name

\* An expired Magic Pill with a positive benefit has been through two calls.
C6_Witness ==
    /\ calls >= 2
    /\ \E i \in Positions :
         /\ init[i].name = DRUGS_NAMES.MAGIC_PILL
         /\ init[i].expiresIn <= 0
         /\ init[i].benefit.n > 0
         /\ drugs[i] = init[i]

(* ------------------------------------ C7 ------------------------------- *)
\* C7: for an item not named Magic Pill every call lowers the expiry by
\* exactly 1, also when it is already <= 0; after n calls the expiry is the
\* initial expiry minus n.
C7_ExpiryCountdown ==
    \A i \in Positions :
        drugs[i].name # DRUGS_NAMES.MAGIC_PILL =>
            /\ calls > 0 => drugs[i].expiresIn = prev[i].expiresIn - 1
            /\ drugs[i].expiresIn = init[i].expiresIn - calls

\* An item already past its expiry was counted down again, twice in a row.
C7_Witness ==
    /\ calls >= 2
    /\ \E i \in Positions :
         /\ drugs[i].name # DRUGS_NAMES.MAGIC_PILL
         /\ init[i].expiresIn <= 0
         /\ drugs[i].expiresIn = init[i].expiresIn - calls
         /\ drugs[i].expiresIn < -1

(* ------------------------------------ C8 ------------------------------- *)
\* C8: a call returns the batch it was given: same length, the same name at
\* every position, and the state written at position i is determined by the
\* name, expiry and benefit that position had when the call began (two
\* positions that began equal end equal, each transitioned once).
C8_SameBatch ==
    /\ Len(drugs) = Len(init)
    /\ calls > 0 =>
         /\ Len(drugs) = Len(prev)
         /\ \A i \in Positions :
              /\ drugs[i].name = prev[i].name
              /\ drugs[i] = updateDrug(prev[i])
         /\ \A i, j \in Positions :
              prev[i] = prev[j] => drugs[i] = drugs[j]

\* A batch of two same-named drugs in different states went through a call
\* and both were changed, each by its own state.
C8_Witness ==
    /\ calls > 0
    /\ Len(drugs) = 2
    /\ prev[1] = Drug(DRUGS_NAMES.DAFALGAN, 1, Num(49))
    /\ prev[2] = Drug(DRUGS_NAMES.DAFALGAN, 0, Num(49))
    /\ drugs[1] = Drug(DRUGS_NAMES.DAFALGAN, 0, Num(47))
    /\ drugs[2] = Drug(DRUGS_NAMES.DAFALGAN, -1, Num(45))

(* ------------------------------------ C9 ------------------------------- *)
\* The names that reach DEFAULT_DRUGS_BEHAVIOR.
DefaultRuled(name) ==
    name \notin DOMAIN DRUGS_BEHAVIOR /\ name \notin ObjectPrototypeKeys

\* C9: for a non-frozen item entering a call with any integer benefit, also
\* one below 0 or above 50, the benefit written back lies in [0, 50].
C9_UnconditionalClamp ==
    calls > 0 =>
      \A i \in Positions :
        (prev[i].name # DRUGS_NAMES.MAGIC_PILL /\ IsInt(prev[i].benefit)) =>
            InRange(drugs[i].benefit)

\* C9 as amended: clamping is one-sided.  For an item entering a call with
\* any integer benefit v, a decaying item (Dafalgan, or a name given the
\* default rule) is written max(0, v - d), so never below 0; a growing item
\* (Fervex, or Herbal Tea entered with expiry > 0) is written min(50, v + g),
\* or 0 for an expired Fervex, so never above 50.  The opposite bound is
\* enforced in neither case.
C9_OneSidedClamp ==
    calls > 0 =>
      \A i \in Positions :
        IsInt(prev[i].benefit) =>
          LET nm == prev[i].name
              e  == prev[i].expiresIn
              v  == prev[i].benefit.n
              w  == drugs[i].benefit
          IN  /\ DefaultRuled(nm) =>
                   /\ w = Num(Max(minBenefit, v - (IF e > 0 THEN 1 ELSE 2)))
                   /\ w.n >= minBenefit
              /\ nm = DRUGS_NAMES.DAFALGAN =>
                   /\ w = Num(Max(minBenefit, v - (IF e > 0 THEN 2 ELSE 4)))
                   /\ w.n >= minBenefit
              /\ nm = DRUGS_NAMES.FERVEX =>
                   /\ w = IF e <= 0 THEN Num(0)
                          ELSE Num(Min(maxBenefit,
                                       v + (IF e <= 5 THEN 3
                                            ELSE IF e <= 10 THEN 2 ELSE 1)))
                   /\ w.n <= maxBenefit
              /\ (nm = DRUGS_NAMES.HERBAL_TEA /\ e > 0) =>
                   /\ w = Num(Min(maxBenefit, v + 1))
                   /\ w.n <= maxBenefit

\* A default-rule item entered a call with benefit 60 and was written 59.
C9_Witness ==
    /\ calls > 0
    /\ \E i \in Positions :
         /\ prev[i] = Drug("test", 2, Num(60))
         /\ drugs[i] = Drug("test", 1, Num(59))

(* ------------------------------------ C10 ------------------------------ *)
\* C10: under repeated calls a default-rule item or a Dafalgan that started
\* with a benefit in [0, 50] never has its benefit raised by a call, has
\* benefit 0 after at most 50 calls (default rule) or 25 calls (Dafalgan),
\* and once at 0 stays at 0; a Fervex has benefit 0 after every call it
\* entered with expiry <= 0.
C10_DecayToZero ==
    \A i \in Positions :
      /\ (DefaultRuled(init[i].name) \/ init[i].name = DRUGS_NAMES.DAFALGAN) =>
           /\ IsInt(drugs[i].benefit)
           /\ calls > 0 => drugs[i].benefit.n <= prev[i].benefit.n
           /\ (calls > 0 /\ prev[i].benefit = Num(0)) =>
                 drugs[i].benefit = Num(0)
           /\ (DefaultRuled(init[i].name) /\ calls >= maxBenefit) =>
                 drugs[i].benefit = Num(0)
           /\ (init[i].name = DRUGS_NAMES.DAFALGAN
                 /\ calls >= maxBenefit \div 2) =>
                 drugs[i].benefit = Num(0)
      /\ (init[i].name = DRUGS_NAMES.FERVEX /\ calls > 0
            /\ prev[i].expiresIn <= 0) =>
           drugs[i].benefit = Num(0)

\* A default-rule item that started at 50 with a long shelf life needed all
\* of its 50 calls: it held 1 when the 50th call began and 0 when it ended.
C10_Witness ==
    /\ calls = maxBenefit
    /\ \E i \in Positions :
         /\ init[i] = Drug("test", LongExpiry, Num(maxBenefit))
         /\ prev[i].benefit = Num(1)
         /\ drugs[i].benefit = Num(0)

====
